---- MODULE Spec2Model ----
(***************************************************************************)
(* Model of the Loadcell Data Analyzer (src/index.tsx): the eight-channel  *)
(* store, the aggregate, the bounded log, the two data sources (simulation *)
(* timer and Web Serial read loop) and the calibration dialog.             *)
(*                                                                         *)
(* Numbers are exact rationals <<numerator, denominator>> in lowest terms  *)
(* with a positive denominator; the regression engine is modelled a second *)
(* time in IEEE 754 doubles, for the inputs on which rounding decides.     *)
(* One action is one handler (or one continuation of an async handler)     *)
(* together with the React render and the effects that follow it.          *)
(***************************************************************************)
EXTENDS Integers, Sequences, FiniteSets, TLC

\* ------------------------------------------------------------------ bounds
\* channels the inputs touch (the store always holds NumScales channels)
MaxId == 1
\* connect calls that can be in flight at once
MaxConns == 1
\* serial ports the user can pick
NumPorts == 1

\* ------------------------------------------------------- program constants
NumScales == 8
DefaultLogBufferSize == 100
DefaultKnownWeight == "100"

\* --------------------------------------------------------------- rationals
Abs(n) == IF n < 0 THEN -n ELSE n

RECURSIVE GCD(_, _)
GCD(a, b) == IF b = 0 THEN a ELSE GCD(b, a % b)

\* a / b for b # 0, in lowest terms
RNorm(n, d) ==
    LET g == GCD(Abs(n), Abs(d))
        s == IF d < 0 THEN -1 ELSE 1
    IN  <<(s * n) \div g, (s * d) \div g>>

Q(n) == <<n, 1>>
RAdd(a, b) == RNorm(a[1] * b[2] + b[1] * a[2], a[2] * b[2])
RSub(a, b) == RNorm(a[1] * b[2] - b[1] * a[2], a[2] * b[2])
RMul(a, b) == RNorm(a[1] * b[1], a[2] * b[2])
RDiv(a, b) == RNorm(a[1] * b[2], a[2] * b[1])
RIsZero(a) == a[1] = 0

\* ------------------------------------------------------- regression engine
RECURSIVE RegressionSums(_, _, _)
RegressionSums(points, i, acc) ==
    \* (the test on acc has the sums evaluated at every step, not at the end)
    IF acc.sumX2[2] = 0 \/ i > Len(points) THEN acc
    ELSE LET x == points[i].x
             y == points[i].y
         IN  RegressionSums(points, i + 1,
                 [sumX  |-> RAdd(acc.sumX, x),
                  sumY  |-> RAdd(acc.sumY, y),
                  sumXY |-> RAdd(acc.sumXY, RMul(x, y)),
                  sumX2 |-> RAdd(acc.sumX2, RMul(x, x)),
                  sumY2 |-> RAdd(acc.sumY2, RMul(y, y))])

calculateLinearRegression(points) ==
    IF Len(points) < 2 THEN [slope |-> Q(1), rSquared |-> Q(0)]
    ELSE
      LET s == RegressionSums(points, 1,
                   [sumX |-> Q(0), sumY |-> Q(0), sumXY |-> Q(0),
                    sumX2 |-> Q(0), sumY2 |-> Q(0)])
          n == Q(Len(points))
          numeratorSlope == RSub(RMul(n, s.sumXY), RMul(s.sumX, s.sumY))
          denominatorSlope == RSub(RMul(n, s.sumX2), RMul(s.sumX, s.sumX))
          varY == RSub(RMul(n, s.sumY2), RMul(s.sumY, s.sumY))
          \* denominatorR is the square root of this product
          radicand == RMul(denominatorSlope, varY)
      IN  IF RIsZero(denominatorSlope) THEN [slope |-> Q(1), rSquared |-> Q(0)]
          ELSE LET slope == RDiv(numeratorSlope, denominatorSlope)
               IN  IF RIsZero(radicand) THEN [slope |-> slope, rSquared |-> Q(1)]
                   ELSE IF radicand[1] < 0 THEN [slope |-> slope, rSquared |-> Q(0)]
                   ELSE [slope |-> slope,
                         rSquared |-> RDiv(RMul(numeratorSlope, numeratorSlope), radicand)]

\* ----------------------------------------------------------- double arithmetic
\* IEEE 754 binary64 with round-to-nearest-even, for the computations whose
\* result depends on rounding.  A natural number is the sequence of its limbs in
\* base 2^15, lowest first, without leading zero limbs (<<>> is 0).  A double is
\* [s, m, e] standing for s * m * 2^e with s in {1, -1} and 2^52 <= m < 2^53;
\* zero is [s |-> 1, m |-> <<>>, e |-> 0].  Infinities, NaN, subnormals and the
\* sign of zero are not modelled; the square root of a negative number is
\* treated where it is taken.
LimbBits == 15
MantissaBits == 53

RECURSIVE Pow2(_)
Pow2(k) == IF k = 0 THEN 1 ELSE 2 * Pow2(k - 1)

Limb == Pow2(LimbBits)

RECURSIVE BTrim(_)
BTrim(a) ==
    IF a # <<>> /\ a[Len(a)] = 0 THEN BTrim(SubSeq(a, 1, Len(a) - 1)) ELSE a

BLimb(a, i) == IF i <= Len(a) THEN a[i] ELSE 0

RECURSIVE BAddFrom(_, _, _, _, _)
BAddFrom(a, b, i, carry, acc) ==
    IF i > Len(a) /\ i > Len(b)
    THEN IF carry = 0 THEN acc ELSE Append(acc, carry)
    ELSE BAddFrom(a, b, i + 1, (BLimb(a, i) + BLimb(b, i) + carry) \div Limb,
                  Append(acc, (BLimb(a, i) + BLimb(b, i) + carry) % Limb))

BAdd(a, b) == BAddFrom(a, b, 1, 0, <<>>)

\* a - b for a >= b
RECURSIVE BSubFrom(_, _, _, _, _)
BSubFrom(a, b, i, borrow, acc) ==
    IF i > Len(a) THEN BTrim(acc)
    ELSE BSubFrom(a, b, i + 1,
                  IF a[i] - BLimb(b, i) - borrow < 0 THEN 1 ELSE 0,
                  Append(acc, (a[i] - BLimb(b, i) - borrow + Limb) % Limb))

BSub(a, b) == BSubFrom(a, b, 1, 0, <<>>)

\* -1, 0 or 1 as a < b, a = b or a > b, deciding from limb i down
RECURSIVE BCmpFrom(_, _, _)
BCmpFrom(a, b, i) ==
    IF i = 0 THEN 0
    ELSE IF a[i] < b[i] THEN -1
    ELSE IF a[i] > b[i] THEN 1
    ELSE BCmpFrom(a, b, i - 1)

BCmp(a, b) ==
    IF Len(a) < Len(b) THEN -1
    ELSE IF Len(a) > Len(b) THEN 1
    ELSE BCmpFrom(a, b, Len(a))

\* a * k for 0 <= k < Limb
RECURSIVE BMulLimbFrom(_, _, _, _, _)
BMulLimbFrom(a, k, i, carry, acc) ==
    IF i > Len(a)
    THEN BTrim(IF carry = 0 THEN acc ELSE Append(acc, carry))
    ELSE BMulLimbFrom(a, k, i + 1, (a[i] * k + carry) \div Limb,
                      Append(acc, (a[i] * k + carry) % Limb))

BMulLimb(a, k) == BMulLimbFrom(a, k, 1, 0, <<>>)

BShiftLimbs(a, n) == IF a = <<>> THEN <<>> ELSE [i \in 1..n |-> 0] \o a

RECURSIVE BMulFrom(_, _, _, _)
BMulFrom(a, b, j, acc) ==
    IF j > Len(b) THEN acc
    ELSE BMulFrom(a, b, j + 1, BAdd(acc, BShiftLimbs(BMulLimb(a, b[j]), j - 1)))

BMul(a, b) == BMulFrom(a, b, 1, <<>>)

\* a * 2^bits
BShl(a, bits) == BShiftLimbs(BMulLimb(a, Pow2(bits % LimbBits)), bits \div LimbBits)

\* a / 2^bits for bits < LimbBits, rounded down
BShrSmall(a, bits) ==
    BTrim([i \in 1..Len(a) |->
              (a[i] \div Pow2(bits)) + (BLimb(a, i + 1) % Pow2(bits)) * Pow2(LimbBits - bits)])

\* a / 2^bits, rounded down
BShr(a, bits) ==
    IF bits \div LimbBits >= Len(a) THEN <<>>
    ELSE BShrSmall(SubSeq(a, bits \div LimbBits + 1, Len(a)), bits % LimbBits)

RECURSIVE LimbBitLen(_)
LimbBitLen(x) == IF x = 0 THEN 0 ELSE 1 + LimbBitLen(x \div 2)

BBitLen(a) == IF a = <<>> THEN 0 ELSE LimbBits * (Len(a) - 1) + LimbBitLen(a[Len(a)])

\* bit i of a, bit 0 the lowest
BBit(a, i) == (BLimb(a, i \div LimbBits + 1) \div Pow2(i % LimbBits)) % 2

\* twice a, plus a bit
BDouble(a, bit) == BAddFrom(a, a, 1, bit, <<>>)

\* long division of n by d # 0, bit by bit from the top: qr holds the quotient
\* and the remainder of the bits of n above bit i; DivBits brings down the bits
\* i down to stop, BDivFrom the bits i down to 0, LimbBits bits at a time
DivBit(d, q, r) ==
    IF BCmp(r, d) >= 0 THEN [q |-> BDouble(q, 1), r |-> BSub(r, d)]
    ELSE [q |-> BDouble(q, 0), r |-> r]

RECURSIVE DivBits(_, _, _, _, _)
DivBits(n, d, i, stop, qr) ==
    IF Len(qr.q) < 0 \/ i < stop THEN qr
    ELSE DivBits(n, d, i - 1, stop, DivBit(d, qr.q, BDouble(qr.r, BBit(n, i))))

RECURSIVE BDivFrom(_, _, _, _)
BDivFrom(n, d, i, qr) ==
    IF Len(qr.q) < 0 \/ i < 0 THEN qr
    ELSE BDivFrom(n, d, i - LimbBits,
                  DivBits(n, d, i, IF i < LimbBits THEN 0 ELSE i - LimbBits + 1, qr))

BDivMod(n, d) == BDivFrom(n, d, BBitLen(n) - 1, [q |-> <<>>, r |-> <<>>])

\* the integer square root of n, bit by bit from the top: root holds the bits of
\* the root above bit i; RootBits decides the bits i down to stop, BSqrtFrom the
\* bits i down to 0, LimbBits bits at a time
RootBit(n, root, try) == IF BCmp(BMul(try, try), n) <= 0 THEN try ELSE root

RECURSIVE RootBits(_, _, _, _)
RootBits(n, i, stop, root) ==
    IF Len(root) < 0 \/ i < stop THEN root
    ELSE RootBits(n, i - 1, stop, RootBit(n, root, BAdd(root, BShl(<<1>>, i))))

RECURSIVE BSqrtFrom(_, _, _)
BSqrtFrom(n, i, root) ==
    IF Len(root) < 0 \/ i < 0 THEN root
    ELSE BSqrtFrom(n, i - LimbBits,
                   RootBits(n, i, IF i < LimbBits THEN 0 ELSE i - LimbBits + 1, root))

BSqrt(n) == BSqrtFrom(n, BBitLen(n) \div 2, <<>>)

DZero == [s |-> 1, m |-> <<>>, e |-> 0]
DIsZero(a) == a.m = <<>>
DIsNegative(a) == a.m # <<>> /\ a.s = -1

\* s * m * 2^e with m brought to MantissaBits bits, for m # 0 of at most that
\* many bits or m = 2^MantissaBits
DNormal(s, m, e) ==
    IF BBitLen(m) > MantissaBits
    THEN [s |-> s, m |-> BShr(m, 1), e |-> e + 1]
    ELSE [s |-> s, m |-> BShl(m, MantissaBits - BBitLen(m)),
          e |-> e - (MantissaBits - BBitLen(m))]

\* the quotient q of m by 2^k rounded to nearest, ties to even
RoundedShift(m, k, q) ==
    IF BBit(m, k - 1) = 1 /\ (BShl(BShr(m, k - 1), k - 1) # m \/ BBit(q, 0) = 1)
    THEN BAdd(q, <<1>>)
    ELSE q

\* the double nearest to s * m * 2^e, ties to even
DRound(s, m, e) ==
    IF m = <<>> THEN DZero
    ELSE IF BBitLen(m) <= MantissaBits THEN DNormal(s, m, e)
    ELSE DNormal(s, RoundedShift(m, BBitLen(m) - MantissaBits,
                                 BShr(m, BBitLen(m) - MantissaBits)),
                 e + (BBitLen(m) - MantissaBits))

\* the double of an integer
DInt(n) == DRound(IF n < 0 THEN -1 ELSE 1,
                  BTrim(<<Abs(n) % Limb, (Abs(n) \div Limb) % Limb, Abs(n) \div (Limb * Limb)>>),
                  0)

DNeg(a) == IF DIsZero(a) THEN a ELSE [a EXCEPT !.s = 0 - a.s]

\* the sum of two nonzero doubles whose mantissas ma, mb are aligned at 2^e
DAddAligned(sa, ma, sb, mb, e) ==
    IF sa = sb THEN DRound(sa, BAdd(ma, mb), e)
    ELSE IF BCmp(ma, mb) = 0 THEN DZero
    ELSE IF BCmp(ma, mb) > 0 THEN DRound(sa, BSub(ma, mb), e)
    ELSE DRound(sb, BSub(mb, ma), e)

DAdd(a, b) ==
    IF DIsZero(a) THEN b
    ELSE IF DIsZero(b) THEN a
    ELSE IF a.e <= b.e THEN DAddAligned(a.s, a.m, b.s, BShl(b.m, b.e - a.e), a.e)
    ELSE DAddAligned(a.s, BShl(a.m, a.e - b.e), b.s, b.m, b.e)

DSub(a, b) == DAdd(a, DNeg(b))

DMul(a, b) ==
    IF DIsZero(a) \/ DIsZero(b) THEN DZero
    ELSE DRound(a.s * b.s, BMul(a.m, b.m), a.e + b.e)

\* the quotient with a last bit that tells whether a remainder was left
StickyQuotient(qr) == BDouble(qr.q, IF qr.r = <<>> THEN 0 ELSE 1)

\* a / b for b # 0
DDiv(a, b) ==
    IF DIsZero(a) THEN DZero
    ELSE DRound(a.s * b.s,
                StickyQuotient(BDivMod(BShl(a.m, MantissaBits + 2), b.m)),
                a.e - b.e - (MantissaBits + 2) - 1)

\* the root of m * 2^e for an even e, with a last bit that tells whether it is inexact
StickyRoot(m, root) == BDouble(root, IF BMul(root, root) = m THEN 0 ELSE 1)

\* the square root of a >= 0
DSqrt(a) ==
    IF DIsZero(a) THEN DZero
    ELSE IF (a.e - (MantissaBits + 4)) % 2 = 0
    THEN DRound(1, StickyRoot(BShl(a.m, MantissaBits + 4),
                              BSqrt(BShl(a.m, MantissaBits + 4))),
                (a.e - (MantissaBits + 4)) \div 2 - 1)
    ELSE DRound(1, StickyRoot(BShl(a.m, MantissaBits + 5),
                              BSqrt(BShl(a.m, MantissaBits + 5))),
                (a.e - (MantissaBits + 5)) \div 2 - 1)

\* ------------------------------------------- regression engine, in doubles
\* the body of the forEach, for one point
DSumsStep(acc, x, y) ==
    [sumX  |-> DAdd(acc.sumX, x),
     sumY  |-> DAdd(acc.sumY, y),
     sumXY |-> DAdd(acc.sumXY, DMul(x, y)),
     sumX2 |-> DAdd(acc.sumX2, DMul(x, x)),
     sumY2 |-> DAdd(acc.sumY2, DMul(y, y))]

RECURSIVE DRegressionSums(_, _, _)
DRegressionSums(points, i, acc) ==
    IF acc.sumX2.s = 0 \/ i > Len(points) THEN acc
    ELSE DRegressionSums(points, i + 1, DSumsStep(acc, points[i].x, points[i].y))

\* from `const r = numeratorR / denominatorR` on
RSquaredOf(r) == DMul(r, r)

\* from `const numeratorR = ...` on; product is the argument of Math.sqrt, whose
\* result for a negative argument is NaN: that is not === 0 and makes rSquared
\* NaN, returned as 0
RegressionFrom(numeratorR, slope, product) ==
    IF DIsZero(product) THEN [slope |-> slope, rSquared |-> DInt(1)]
    ELSE IF DIsNegative(product) THEN [slope |-> slope, rSquared |-> DZero]
    ELSE [slope |-> slope, rSquared |-> RSquaredOf(DDiv(numeratorR, DSqrt(product)))]

\* mutant: the slope is the numerator alone
RegressionOfParts_NoDivision(numeratorSlope, denominatorSlope, varY) ==
    IF DIsZero(denominatorSlope) THEN [slope |-> DInt(1), rSquared |-> DZero]
    ELSE RegressionFrom(numeratorSlope, numeratorSlope, DMul(denominatorSlope, varY))

\* from `if (denominatorSlope === 0)` on; varY is n * sumY2 - sumY * sumY
RegressionOfParts(numeratorSlope, denominatorSlope, varY) ==
    IF DIsZero(denominatorSlope) THEN [slope |-> DInt(1), rSquared |-> DZero]
    ELSE RegressionFrom(numeratorSlope, DDiv(numeratorSlope, denominatorSlope),
                        DMul(denominatorSlope, varY))

RegressionOfSums(n, s) ==
    RegressionOfParts(DSub(DMul(n, s.sumXY), DMul(s.sumX, s.sumY)),
                      DSub(DMul(n, s.sumX2), DMul(s.sumX, s.sumX)),
                      DSub(DMul(n, s.sumY2), DMul(s.sumY, s.sumY)))

\* calculateLinearRegression on points whose coordinates are doubles
calculateLinearRegressionDouble(points) ==
    IF Len(points) < 2 THEN [slope |-> DInt(1), rSquared |-> DZero]
    ELSE RegressionOfSums(DInt(Len(points)),
                          DRegressionSums(points, 1,
                              [sumX |-> DZero, sumY |-> DZero, sumXY |-> DZero,
                               sumX2 |-> DZero, sumY2 |-> DZero]))

\* the double nearest to a rational: what parseFloat gives for its decimal text
DOfRational(q) == IF q[2] = 1 THEN DInt(q[1]) ELSE DDiv(DInt(q[1]), DInt(q[2]))

RECURSIVE DoublePointsFrom(_, _, _)
DoublePointsFrom(points, i, acc) ==
    IF Len(acc) < 0 \/ i > Len(points) THEN acc
    ELSE DoublePointsFrom(points, i + 1,
             Append(acc, [x |-> DOfRational(points[i].x), y |-> DOfRational(points[i].y)]))

DoublePoints(points) == DoublePointsFrom(points, 1, <<>>)

\* a call of calculateLinearRegression on points written as decimal numerals
RegressionOf(points) ==
    [points |-> points, result |-> calculateLinearRegressionDouble(DoublePoints(points))]

\* -------------------------------------------------------------- categories
Categories == {"none", "x", "-x", "y", "-y"}

\* ------------------------------------------------------------ channel store
DefaultScales ==
    [i \in 1..NumScales |->
        [id |-> i, name |-> <<"Scale", i>>, rawValue |-> Q(0), tareValue |-> Q(0),
         calibrationSlope |-> Q(1), category |-> "none"]]

\* the persisted subset of the channels
ScalesConfig(scalesToSave) ==
    [i \in 1..Len(scalesToSave) |->
        [id |-> scalesToSave[i].id, name |-> scalesToSave[i].name,
         tareValue |-> scalesToSave[i].tareValue,
         calibrationSlope |-> scalesToSave[i].calibrationSlope,
         category |-> scalesToSave[i].category]]

\* mutant: the channels are stored whole, rawValue included
saveConfigToLocalStorage_KeepsRaw(scalesToSave) == <<scalesToSave>>

\* localStorage holds <<>> (no item), <<config>> (JSON text of an array: its
\* items) or <<"text", t>> (the item is the text t, not the JSON text of an array)
saveConfigToLocalStorage(scalesToSave) == <<ScalesConfig(scalesToSave)>>

\* {...config, rawValue: 0}: the own properties of the item, then rawValue; an
\* item that is null or a number has no own properties and is <<>> here
SpreadWithRaw(config) ==
    [f \in (DOMAIN config) \cup {"rawValue"} |->
        IF f = "rawValue" THEN Q(0) ELSE config[f]]

\* the initializer of the scales state
LoadScales(store) ==
    CASE store = <<>> -> DefaultScales
         \* '' is falsy; JSON.parse throws or gives something that is not an array
      [] Len(store) = 2 -> DefaultScales
      [] OTHER ->
           IF Len(store[1]) = NumScales
           THEN [i \in 1..NumScales |-> SpreadWithRaw(store[1][i])]
           ELSE DefaultScales

\* ---------------------------------------------------------------- aggregate
processedValue(s) == RMul(RSub(s.rawValue, s.tareValue), s.calibrationSlope)

\* mutant: a channel categorized -x is added to totalX
CategoryStep_MinusXAdds(acc, cat, pv) ==
    [totalX |-> CASE cat = "x"  -> RAdd(acc.totalX, pv)
                  [] cat = "-x" -> RAdd(acc.totalX, pv)
                  [] OTHER      -> acc.totalX,
     totalY |-> CASE cat = "y"  -> RAdd(acc.totalY, pv)
                  [] cat = "-y" -> RSub(acc.totalY, pv)
                  [] OTHER      -> acc.totalY]

\* the switch on the category: the totals after one channel
CategoryStep(acc, cat, pv) ==
    [totalX |-> CASE cat = "x"  -> RAdd(acc.totalX, pv)
                  [] cat = "-x" -> RSub(acc.totalX, pv)
                  [] OTHER      -> acc.totalX,
     totalY |-> CASE cat = "y"  -> RAdd(acc.totalY, pv)
                  [] cat = "-y" -> RSub(acc.totalY, pv)
                  [] OTHER      -> acc.totalY]

RECURSIVE AggregateFrom(_, _, _)
AggregateFrom(sc, i, acc) ==
    IF i > Len(sc) THEN acc
    ELSE LET pv == processedValue(sc[i])
             step == CategoryStep(acc, sc[i].category, pv)
         IN  AggregateFrom(sc, i + 1,
                 [totalX |-> step.totalX, totalY |-> step.totalY,
                  processedValues |-> Append(acc.processedValues, pv)])

Aggregate(sc) ==
    AggregateFrom(sc, 1, [totalX |-> Q(0), totalY |-> Q(0), processedValues |-> <<>>])

\* --------------------------------------------------------------- log buffer
\* mutant: pop() instead of shift(), the newest entry is dropped
AppendToLog_DropsNewest(lg, entry, bufferSize) ==
    LET updatedLog == Append(lg, entry)
    IN  IF Len(updatedLog) > bufferSize THEN SubSeq(updatedLog, 1, Len(updatedLog) - 1)
        ELSE updatedLog

\* [...logRef.current, newLogEntry], then one shift() if over the buffer size
AppendToLog(lg, entry, bufferSize) ==
    LET updatedLog == Append(lg, entry)
    IN  IF Len(updatedLog) > bufferSize THEN Tail(updatedLog) ELSE updatedLog

\* parseInt(e.target.value) || 100 for the values the input is given
BufferInputs == {"", "0", "-1", "1", "2"}
ParseInt(text) ==
    CASE text = "0"  -> <<0>>
      [] text = "-1" -> <<-1>>
      [] text = "1"  -> <<1>>
      [] text = "2"  -> <<2>>
      [] OTHER       -> <<>>

BufferSizeOf(text) ==
    LET parsed == ParseInt(text)
    IN  IF parsed = <<>> \/ parsed[1] = 0 THEN DefaultLogBufferSize ELSE parsed[1]

\* ------------------------------------------------------------------- inputs
TouchedIds == 1..MaxId

\* (Math.random() - 0.5) * 0.1 per channel, in units of the smallest step modelled:
\* every channel up, or channel 1 up and the others down
SimDeltas ==
    {[i \in 1..NumScales |-> Q(1)],
     [i \in 1..NumScales |-> IF i = 1 THEN Q(1) ELSE Q(-1)]}

\* ------------------------------------------------------------ streamed text
\* text is a sequence of one-character strings (the device sends ASCII, which
\* TextDecoder.decode(value, {stream: true}) maps byte by byte)
TAB == "\t"
NL == "\n"
WhiteSpace == {" ", TAB, NL, "\r"}
Digits == {"0", "1", "2", "3", "4", "5", "6", "7", "8", "9"}

DigitValue(ch) ==
    CASE ch = "0" -> 0 [] ch = "1" -> 1 [] ch = "2" -> 2 [] ch = "3" -> 3
      [] ch = "4" -> 4 [] ch = "5" -> 5 [] ch = "6" -> 6 [] ch = "7" -> 7
      [] ch = "8" -> 8 [] ch = "9" -> 9

\* String.prototype.indexOf, 1-based; 0 is "not found"
IndexOf(text, ch) ==
    IF \E i \in 1..Len(text) : text[i] = ch
    THEN CHOOSE i \in 1..Len(text) : text[i] = ch /\ \A j \in 1..(i - 1) : text[j] # ch
    ELSE 0

\* String.prototype.trim
RECURSIVE TrimStart(_)
TrimStart(text) ==
    IF text # <<>> /\ Head(text) \in WhiteSpace THEN TrimStart(Tail(text)) ELSE text

RECURSIVE TrimEnd(_)
TrimEnd(text) ==
    IF text # <<>> /\ text[Len(text)] \in WhiteSpace
    THEN TrimEnd(SubSeq(text, 1, Len(text) - 1))
    ELSE text

Trim(text) == TrimEnd(TrimStart(text))

\* String.prototype.split with a one-character separator
RECURSIVE Split(_, _)
Split(text, sep) ==
    LET at == IndexOf(text, sep)
    IN  IF at = 0 THEN <<text>>
        ELSE <<SubSeq(text, 1, at - 1)>> \o Split(SubSeq(text, at + 1, Len(text)), sep)

\* the value of the longest run of digits text starts with, after acc
RECURSIVE DigitsValue(_, _)
DigitsValue(text, acc) ==
    IF text # <<>> /\ Head(text) \in Digits
    THEN DigitsValue(Tail(text), 10 * acc + DigitValue(Head(text)))
    ELSE acc

\* parseFloat of a text over digits, "-", letters and white space: leading white
\* space is skipped, then the longest numeral prefix is read and what follows it
\* is ignored; <<v>> is the number v, <<>> is NaN
parseFloat(text) ==
    LET t == TrimStart(text)
        negative == t # <<>> /\ Head(t) = "-"
        body == IF negative THEN Tail(t) ELSE t
    IN  IF body # <<>> /\ Head(body) \in Digits
        THEN <<(IF negative THEN -1 ELSE 1) * DigitsValue(body, 0)>>
        ELSE <<>>

\* line.split('\t').map(parseFloat)
ParseLine(line) ==
    LET fields == Split(line, TAB)
    IN  [i \in 1..Len(fields) |-> parseFloat(fields[i])]

\* mutant: lineBuffer is emptied after the complete lines are taken off
RECURSIVE DrainLines_DropsRest(_, _)
DrainLines_DropsRest(lineBuffer, taken) ==
    LET eolIndex == IndexOf(lineBuffer, NL)
    IN  IF eolIndex = 0 THEN [lines |-> taken, lineBuffer |-> <<>>]
        ELSE LET line == Trim(SubSeq(lineBuffer, 1, eolIndex - 1))
                 rest == SubSeq(lineBuffer, eolIndex + 1, Len(lineBuffer))
             IN  DrainLines_DropsRest(rest, IF line # <<>> THEN Append(taken, ParseLine(line))
                                            ELSE taken)

\* the inner while loop of readFromPort: the parsed non-blank lines taken off
\* the front of lineBuffer, and what is left of it
RECURSIVE DrainLines(_, _)
DrainLines(lineBuffer, taken) ==
    LET eolIndex == IndexOf(lineBuffer, NL)
    IN  IF eolIndex = 0 THEN [lines |-> taken, lineBuffer |-> lineBuffer]
        ELSE LET line == Trim(SubSeq(lineBuffer, 1, eolIndex - 1))
                 rest == SubSeq(lineBuffer, eolIndex + 1, Len(lineBuffer))
             IN  DrainLines(rest, IF line # <<>> THEN Append(taken, ParseLine(line))
                                  ELSE taken)

\* fields joined by tabs
RECURSIVE JoinFields(_)
JoinFields(fields) ==
    IF Len(fields) = 1 THEN fields[1]
    ELSE fields[1] \o <<TAB>> \o JoinFields(Tail(fields))

\* the texts of single fields the device sends
FrameValues == {<<"1", "0">>, <<"1", "5">>}
Ten == <<"1", "0">>
LineOf(first, count) == JoinFields([i \in 1..count |-> IF i = 1 THEN first ELSE Ten])
FrameLines == {LineOf(v, NumScales) \o <<NL>> : v \in FrameValues}
ShortLine == LineOf(Ten, NumScales - 1) \o <<NL>>
Lines == FrameLines \cup {ShortLine}
\* the chunks a read delivers: a frame, a line of 7 fields, two frames at once,
\* the first character of a frame, a frame with CR LF, a frame with an
\* unparseable field followed by a blank line and the start of the next frame,
\* a line of 9 fields, and a frame whose first field is -15kg after a tab
Chunks ==
    Lines
    \cup {LineOf(<<"1", "0">>, NumScales) \o <<NL>> \o LineOf(<<"1", "5">>, NumScales) \o <<NL>>}
    \cup {<<"1">>}
    \cup {LineOf(<<"1", "5">>, NumScales) \o <<"\r", NL>>}
    \cup {LineOf(<<"x">>, NumScales) \o <<NL, " ", NL, "5">>}
    \cup {LineOf(Ten, NumScales + 1) \o <<NL>>}
    \cup {<<TAB>> \o LineOf(<<"-", "1", "5", "k", "g">>, NumScales) \o <<NL>>}

\* the known-weight field of the calibration dialog and parseFloat of it
WeightInputs == {"100", "101", ""}
ParseFloat(text) ==
    CASE text = "100" -> <<100>>
      [] text = "101" -> <<101>>
      [] text = "2"   -> <<2>>
      [] text = "4"   -> <<4>>
      [] OTHER        -> <<>>

\* localStorage as a previous run can have left it
StoredConfigs ==
    {ScalesConfig([DefaultScales EXCEPT ![1].category = "x", ![2].category = "-x"]),
     ScalesConfig([DefaultScales EXCEPT ![1].tareValue = Q(10), ![1].calibrationSlope = Q(2),
                                        ![1].category = "y", ![2].category = "-y"])}

\* texts under LOCAL_STORAGE_KEY that are not the JSON text of an array
OtherTexts == {"", "not json", "null", "42", "{}"}

SomeConfig ==
    ScalesConfig([DefaultScales EXCEPT ![1].tareValue = Q(10), ![1].calibrationSlope = Q(2),
                                       ![1].category = "y", ![2].category = "-y"])

\* arrays under LOCAL_STORAGE_KEY: of 0, 7, 8 and 9 channel records, of 8 records
\* that also carry a rawValue, of 8 records without tareValue, of 8 empty
\* objects, and of 8 records of which one is null
StoredArrays ==
    {<<>>,
     SubSeq(SomeConfig, 1, NumScales - 1),
     SomeConfig,
     ScalesConfig(DefaultScales),
     SomeConfig \o <<SomeConfig[1]>>,
     [i \in 1..NumScales |-> SpreadWithRaw(SomeConfig[i])],
     [i \in 1..NumScales |-> [id |-> i, name |-> <<"Scale", i>>,
                              calibrationSlope |-> Q(1), category |-> "none"]],
     [i \in 1..NumScales |-> <<>>],
     [i \in 1..NumScales |-> IF i = NumScales THEN <<>> ELSE SomeConfig[i]]}

StoredItems ==
    {<<>>} \cup {<<"text", t>> : t \in OtherTexts} \cup {<<a>> : a \in StoredArrays}

\* -------------------------------------------------------------------- state
VARIABLES
    scales,              \* useState<Scale[]>
    isSimulating,        \* useState(false)
    calibratingScaleId,  \* useState<number | null>, 0 is null
    log,                 \* useState<LogEntry[]>
    logBufferSize,       \* useState(100)
    serialStatus,        \* useState<SerialStatus>
    portRef,             \* useRef<SerialPort | null>, 0 is null
    readerRef,           \* useRef<reader | null>: the connect call that made it, 0 is null
    localStorage,        \* the item under LOCAL_STORAGE_KEY
    points,              \* CalibrationModal useState<CalibrationPoint[]>
    knownWeight,         \* CalibrationModal useState<string>
    conn,                \* the handleConnectDevice / readFromPort calls in flight, with
                         \* readFromPort's lineBuffer and the value it read last
    disc,                \* the handleDisconnectDevice call in flight
    portState,           \* each SerialPort: "closed", "opening" or "open"
    hist,                \* every entry ever appended to the log, in order
    capMark,             \* Len(hist) and emptiness of the log at the last buffer-size change
    sessionTared,        \* whether Tare All ran since the calibration dialog was opened
    abandoned,           \* whether the dialog held points when it was last closed unapplied
    regression,          \* a call of calculateLinearRegression (its points and what it
                         \* returned) or of stabilitySlopes (a quantity's values, its slope)
    used,                \* user and device events so far
    limit,               \* user and device events allowed in one behaviour
    op                   \* the handler that ran last

vars == <<scales, isSimulating, calibratingScaleId, log, logBufferSize, serialStatus,
          portRef, readerRef, localStorage, points, knownWeight, conn, disc, portState,
          hist, capMark, sessionTared, abandoned, regression, used, limit, op>>

isReadingData == isSimulating \/ serialStatus.type = "connected"

\* the serial ports the user can pick and the connect calls that can be in flight
Ports == DOMAIN portState
Conns == DOMAIN conn

FreeConn == [pc |-> "free", port |-> 0, cancelled |-> FALSE, lineBuffer |-> <<>>, value |-> <<>>]
NoDisc == [pc |-> "none", port |-> 0]

\* the state after the first render, for the given localStorage contents, with
\* the given connect calls and serial ports to come
InitWith(stores, lim, calls, ports) ==
    /\ localStorage \in stores
    /\ limit = lim
    /\ scales = LoadScales(localStorage)
    /\ isSimulating = FALSE
    /\ calibratingScaleId = 0
    /\ log = <<>>
    /\ logBufferSize = DefaultLogBufferSize
    /\ serialStatus = [text |-> "Disconnected", type |-> "idle"]
    /\ portRef = 0
    /\ readerRef = 0
    /\ points = <<>>
    /\ knownWeight = DefaultKnownWeight
    /\ conn = [c \in calls |-> FreeConn]
    /\ disc = NoDisc
    /\ portState = [p \in ports |-> "closed"]
    /\ hist = <<>>
    /\ capMark = [hist |-> 0, empty |-> TRUE]
    /\ sessionTared = FALSE
    /\ abandoned = FALSE
    /\ regression = RegressionOf(<<>>)
    /\ used = 0
    /\ op = "init"

InitFrom(stores, lim) == InitWith(stores, lim, 1..MaxConns, 1..NumPorts)

\* ------------------------------------------------- render and the log effect
NewLogEntry(sc) ==
    LET a == Aggregate(sc)
    IN  [totalX |-> a.totalX, totalY |-> a.totalY, processedValues |-> a.processedValues]

\* mutant: the effect without its `if (!isReadingData) return`
LogEffectRuns_NoIdleGuard(scalesSet, sim, st, cap) ==
    LET reading == sim \/ st.type = "connected"
    IN  scalesSet \/ reading # isReadingData \/ cap # logBufferSize

\* whether the log-append effect runs after a render and gets past its guard:
\* a dependency changed (processedScales is new after every setScales) and
\* isReadingData holds in the new render
LogEffectRuns(scalesSet, sim, st, cap) ==
    LET reading == sim \/ st.type = "connected"
    IN  /\ scalesSet \/ reading # isReadingData \/ cap # logBufferSize
        /\ reading

\* the state a handler leaves, then the render and the log effect
Render(name, sc, scalesSet, sim, st, cap) ==
    /\ scales' = sc
    /\ isSimulating' = sim
    /\ serialStatus' = st
    /\ logBufferSize' = cap
    /\ IF LogEffectRuns(scalesSet, sim, st, cap)
       THEN /\ log' = AppendToLog(log, NewLogEntry(sc), cap)
            /\ hist' = Append(hist, NewLogEntry(sc))
       ELSE UNCHANGED <<log, hist>>
    /\ capMark' = IF cap # logBufferSize
                  THEN [hist |-> Len(hist'), empty |-> log' = <<>>]
                  ELSE capMark
    /\ op' = name

Spend ==
    /\ used < limit
    /\ limit' = limit
    /\ used' = used + 1

\* --------------------------------------------------------------- simulation
\* the Start/Stop Simulation button
ToggleSimulation ==
    /\ serialStatus.type # "connected"
    /\ Spend
    /\ Render("toggleSimulation", scales, FALSE, ~isSimulating, serialStatus, logBufferSize)
    /\ UNCHANGED <<calibratingScaleId, portRef, readerRef, localStorage, points,
                   knownWeight, conn, disc, portState, sessionTared, abandoned, regression>>

\* one firing of the 100 ms interval
SimTick ==
    /\ isSimulating
    /\ Spend
    /\ \E delta \in SimDeltas :
         Render("simTick",
                [i \in 1..NumScales |->
                    [scales[i] EXCEPT !.rawValue = RAdd(scales[i].rawValue, delta[i])]],
                TRUE, isSimulating, serialStatus, logBufferSize)
    /\ UNCHANGED <<calibratingScaleId, portRef, readerRef, localStorage, points,
                   knownWeight, conn, disc, portState, sessionTared, abandoned, regression>>

\* ------------------------------------------------------------ channel store
\* mutant: the tare is taken from the already tared value
TareScales_FromTared(prevScales) ==
    [i \in 1..Len(prevScales) |->
        [prevScales[i] EXCEPT !.tareValue = RSub(prevScales[i].rawValue, prevScales[i].tareValue)]]

TareScales(prevScales) ==
    [i \in 1..Len(prevScales) |->
        [prevScales[i] EXCEPT !.tareValue = prevScales[i].rawValue]]

handleTareAll ==
    /\ isReadingData
    /\ Spend
    /\ LET updatedScales == TareScales(scales)
       IN  /\ localStorage' = saveConfigToLocalStorage(updatedScales)
           /\ Render("tareAll", updatedScales, TRUE, isSimulating, serialStatus, logBufferSize)
    /\ sessionTared' = (sessionTared \/ calibratingScaleId # 0)
    /\ UNCHANGED <<abandoned, regression>>
    /\ UNCHANGED <<calibratingScaleId, portRef, readerRef, points, knownWeight,
                   conn, disc, portState>>

\* mutant: the category is written into every channel
CategoryScales_AllChannels(prevScales, id, newCategory) ==
    [i \in 1..Len(prevScales) |-> [prevScales[i] EXCEPT !.category = newCategory]]

CategoryScales(prevScales, id, newCategory) ==
    [i \in 1..Len(prevScales) |->
        IF prevScales[i].id = id
        THEN [prevScales[i] EXCEPT !.category = newCategory]
        ELSE prevScales[i]]

handleCategoryChange ==
    /\ Spend
    /\ \E id \in TouchedIds, newCategory \in Categories :
         /\ newCategory # scales[id].category
         /\ LET updatedScales == CategoryScales(scales, id, newCategory)
            IN  /\ localStorage' = saveConfigToLocalStorage(updatedScales)
                /\ Render("categoryChange", updatedScales, TRUE, isSimulating,
                          serialStatus, logBufferSize)
    /\ UNCHANGED <<calibratingScaleId, portRef, readerRef, points, knownWeight,
                   conn, disc, portState, sessionTared, abandoned, regression>>

\* the Buffer Size input
SetLogBufferSize ==
    /\ Spend
    /\ \E text \in BufferInputs :
         /\ BufferSizeOf(text) # logBufferSize
         /\ Render("setLogBufferSize", scales, FALSE, isSimulating, serialStatus,
                   BufferSizeOf(text))
    /\ UNCHANGED <<calibratingScaleId, portRef, readerRef, localStorage, points,
                   knownWeight, conn, disc, portState, sessionTared, abandoned, regression>>

\* ------------------------------------------------------------ serial device
ChromeRest == <<calibratingScaleId, localStorage, points, knownWeight, sessionTared, abandoned, regression>>

\* the Connect to Device button: runs up to `await navigator.serial.requestPort()`
handleConnectDevice ==
    /\ ~isSimulating
    /\ serialStatus.type # "connected"
    /\ Spend
    /\ \E c \in Conns :
         /\ conn[c].pc = "free"
         /\ conn' = [conn EXCEPT ![c].pc = "requestPort"]
    /\ op' = "connect"
    /\ UNCHANGED <<scales, isSimulating, log, logBufferSize, serialStatus, portRef, readerRef,
                   disc, portState, hist, capMark>>
    /\ UNCHANGED ChromeRest

\* requestPort() resolves: portRef is set, the status becomes 'connecting' and
\* port.open() is called; open() on a port that is not closed will reject
RequestPortResolved ==
    \E c \in Conns, p \in Ports :
      /\ conn[c].pc = "requestPort"
      /\ portRef' = p
      /\ IF portState[p] = "closed"
         THEN /\ portState' = [portState EXCEPT ![p] = "opening"]
              /\ conn' = [conn EXCEPT ![c].pc = "open", ![c].port = p]
         ELSE /\ portState' = portState
              /\ conn' = [conn EXCEPT ![c].pc = "openRejected", ![c].port = p]
      /\ Render("requestPortResolved", scales, FALSE, isSimulating,
                [text |-> "Connecting...", type |-> "connecting"], logBufferSize)
      /\ UNCHANGED <<readerRef, disc, used, limit>>
      /\ UNCHANGED ChromeRest

\* requestPort() rejects (no port chosen): the catch block
RequestPortRejected ==
    \E c \in Conns :
      /\ conn[c].pc = "requestPort"
      /\ conn' = [conn EXCEPT ![c] = FreeConn]
      /\ Render("requestPortRejected", scales, FALSE, isSimulating,
                [text |-> "Error: No port selected", type |-> "error"], logBufferSize)
      /\ UNCHANGED <<portRef, readerRef, disc, portState, used, limit>>
      /\ UNCHANGED ChromeRest

\* port.open() resolves: the status becomes 'connected' and readFromPort runs
\* up to its first `await reader.read()`
OpenResolved ==
    \E c \in Conns :
      /\ conn[c].pc = "open"
      /\ portState' = [portState EXCEPT ![conn[c].port] = "open"]
      /\ conn' = [conn EXCEPT ![c].pc = "read"]
      /\ readerRef' = c
      /\ Render("openResolved", scales, FALSE, isSimulating,
                [text |-> "Connected", type |-> "connected"], logBufferSize)
      /\ UNCHANGED <<portRef, disc, used, limit>>
      /\ UNCHANGED ChromeRest

\* port.open() rejects: the catch block
OpenRejected ==
    \E c \in Conns :
      /\ conn[c].pc \in {"open", "openRejected"}
      /\ portState' = IF conn[c].pc = "open"
                      THEN [portState EXCEPT ![conn[c].port] = "closed"]
                      ELSE portState
      /\ conn' = [conn EXCEPT ![c] = FreeConn]
      /\ Render("openRejected", scales, FALSE, isSimulating,
                [text |-> "Error: Failed to open serial port", type |-> "error"],
                logBufferSize)
      /\ UNCHANGED <<portRef, readerRef, disc, used, limit>>
      /\ UNCHANGED ChromeRest

\* values.length === 8 && values.every(v => !isNaN(v))
ValidLine(values) ==
    /\ Len(values) = NumScales
    /\ \A i \in 1..Len(values) : values[i] # <<>>

\* setScales(prev => prev.map((scale, index) => ({...scale, rawValue: values[index]})))
RawFromLine(prevScales, values) ==
    [i \in 1..Len(prevScales) |-> [prevScales[i] EXCEPT !.rawValue = Q(values[i][1])]]

\* the updaters queued by the lines of one chunk, applied in order
RECURSIVE ApplyLines(_, _, _)
ApplyLines(prevScales, lines, i) ==
    IF i > Len(lines) THEN prevScales
    ELSE ApplyLines(IF ValidLine(lines[i]) THEN RawFromLine(prevScales, lines[i])
                    ELSE prevScales,
                    lines, i + 1)

\* reader.read() resolves with a value: it is appended to lineBuffer and the
\* complete lines are taken off; the setScales calls of one read are batched
\* into one render
readFromPort ==
    \E c \in Conns, chunk \in Chunks :
      /\ conn[c].pc = "read"
      /\ ~conn[c].cancelled
      /\ Spend
      /\ LET drained == DrainLines(conn[c].lineBuffer \o chunk, <<>>)
         IN  /\ conn' = [conn EXCEPT ![c].lineBuffer = drained.lineBuffer,
                                     ![c].value = chunk]
             /\ Render("readChunk", ApplyLines(scales, drained.lines, 1),
                       \E i \in 1..Len(drained.lines) : ValidLine(drained.lines[i]),
                       isSimulating, serialStatus, logBufferSize)
      /\ UNCHANGED <<portRef, readerRef, disc, portState>>
      /\ UNCHANGED ChromeRest

\* reader.read() rejects: the catch block warns, finally releases the lock
ReadFailed ==
    \E c \in Conns :
      /\ conn[c].pc = "read"
      /\ ~conn[c].cancelled
      /\ conn' = [conn EXCEPT ![c] = FreeConn]
      /\ op' = "readFailed"
      /\ UNCHANGED <<scales, isSimulating, log, logBufferSize, serialStatus, portRef,
                     readerRef, disc, portState, hist, capMark, used, limit>>
      /\ UNCHANGED ChromeRest

\* reader.read() resolves with done after cancel(): break, finally releases the lock
ReadDone ==
    \E c \in Conns :
      /\ conn[c].pc = "read"
      /\ conn[c].cancelled
      /\ conn' = [conn EXCEPT ![c] = FreeConn]
      /\ op' = "readDone"
      /\ UNCHANGED <<scales, isSimulating, log, logBufferSize, serialStatus, portRef,
                     readerRef, disc, portState, hist, capMark, used, limit>>
      /\ UNCHANGED ChromeRest

\* the Disconnect Device button: runs up to its first await
handleDisconnectDevice ==
    /\ serialStatus.type = "connected"
    /\ ~isSimulating
    /\ disc.pc = "none"
    /\ IF readerRef # 0
       THEN \* cancel() of a reader whose lock was released rejects
            IF conn[readerRef].pc = "read"
            THEN /\ conn' = [conn EXCEPT ![readerRef].cancelled = TRUE]
                 /\ disc' = [pc |-> "cancel", port |-> 0]
                 /\ UNCHANGED <<scales, isSimulating, log, logBufferSize, serialStatus,
                                hist, capMark>>
                 /\ op' = "disconnect"
            ELSE /\ disc' = [pc |-> "cancelRejected", port |-> 0]
                 /\ UNCHANGED <<conn, scales, isSimulating, log, logBufferSize, serialStatus,
                                hist, capMark>>
                 /\ op' = "disconnect"
       ELSE IF portRef # 0
       THEN /\ disc' = [pc |-> "close", port |-> portRef]
            /\ UNCHANGED <<conn, scales, isSimulating, log, logBufferSize, serialStatus,
                           hist, capMark>>
            /\ op' = "disconnect"
       ELSE /\ UNCHANGED <<conn, disc>>
            /\ Render("disconnect", scales, FALSE, isSimulating,
                      [text |-> "Disconnected", type |-> "idle"], logBufferSize)
    /\ UNCHANGED <<portRef, readerRef, portState, used, limit>>
    /\ UNCHANGED ChromeRest

\* `await readerRef.current.cancel()` settles, after the read loop saw done
DisconnectAfterCancel ==
    /\ disc.pc \in {"cancel", "cancelRejected"}
    /\ IF disc.pc = "cancelRejected"
       THEN \* the rejection leaves the handler
            /\ disc' = NoDisc
            /\ op' = "disconnectFailed"
            /\ UNCHANGED <<readerRef, scales, isSimulating, log, logBufferSize, serialStatus,
                           hist, capMark>>
       ELSE /\ \A c \in Conns : ~(conn[c].pc = "read" /\ conn[c].cancelled)
            /\ readerRef' = 0
            /\ IF portRef # 0
               THEN /\ disc' = [pc |-> "close", port |-> portRef]
                    /\ op' = "disconnectCancelled"
                    /\ UNCHANGED <<scales, isSimulating, log, logBufferSize, serialStatus,
                                   hist, capMark>>
               ELSE /\ disc' = NoDisc
                    /\ Render("disconnected", scales, FALSE, isSimulating,
                              [text |-> "Disconnected", type |-> "idle"], logBufferSize)
    /\ UNCHANGED <<portRef, conn, portState, used, limit>>
    /\ UNCHANGED ChromeRest

\* `await portRef.current.close()` settles; close() of a port that is not open rejects
DisconnectAfterClose ==
    /\ disc.pc = "close"
    /\ disc' = NoDisc
    /\ IF portState[disc.port] = "open"
       THEN /\ portState' = [portState EXCEPT ![disc.port] = "closed"]
            /\ portRef' = 0
            /\ Render("disconnected", scales, FALSE, isSimulating,
                      [text |-> "Disconnected", type |-> "idle"], logBufferSize)
       ELSE /\ op' = "disconnectFailed"
            /\ UNCHANGED <<portState, portRef, scales, isSimulating, log, logBufferSize,
                           serialStatus, hist, capMark>>
    /\ UNCHANGED <<readerRef, conn, used, limit>>
    /\ UNCHANGED ChromeRest

\* -------------------------------------------------------------- calibration
SerialRest == <<portRef, readerRef, conn, disc, portState>>

calibratingScale == IF calibratingScaleId = 0 THEN <<>> ELSE <<scales[calibratingScaleId]>>

\* the Calibrate button of a row; the dialog keeps its state while it stays mounted
OpenCalibration ==
    /\ isReadingData
    /\ Spend
    /\ \E id \in TouchedIds :
         /\ id # calibratingScaleId
         /\ calibratingScaleId' = id
    /\ sessionTared' = (sessionTared /\ calibratingScaleId # 0)
    /\ UNCHANGED <<abandoned, regression>>
    /\ op' = "openCalibration"
    /\ UNCHANGED <<points, knownWeight>>
    /\ UNCHANGED <<scales, isSimulating, log, logBufferSize, serialStatus, localStorage,
                   hist, capMark>>
    /\ UNCHANGED SerialRest

\* the known-weight field is typed into (setKnownWeight), then Add Data Point
addPointWith(texts) ==
    /\ calibratingScaleId # 0
    /\ Spend
    /\ \E text \in texts :
         /\ knownWeight' = text
         /\ LET weight == ParseFloat(text)
            IN  points' = IF weight = <<>> THEN points
                          ELSE Append(points, [knownWeight |-> Q(weight[1]),
                                               rawValue |-> calibratingScale[1].rawValue])
    /\ op' = "addPoint"
    /\ UNCHANGED <<calibratingScaleId, sessionTared, abandoned, regression>>
    /\ UNCHANGED <<scales, isSimulating, log, logBufferSize, serialStatus, localStorage,
                   hist, capMark>>
    /\ UNCHANGED SerialRest

addPoint == addPointWith(WeightInputs)

\* reference weights of 2 and 4 units
ReferenceWeights == {"2", "4"}
addReferencePoint == addPointWith(ReferenceWeights)

taredPoints(pts, scale) ==
    [i \in 1..Len(pts) |->
        [x |-> pts[i].knownWeight, y |-> RSub(pts[i].rawValue, scale.tareValue)]]

regressionResult == calculateLinearRegression(taredPoints(points, calibratingScale[1]))

\* mutant: the slope is written into the channels of the first render (a stale
\* closure instead of the functional update)
ApplyScales_Stale(prevScales, id, newSlope) ==
    [i \in 1..Len(prevScales) |->
        IF prevScales[i].id = id
        THEN [DefaultScales[i] EXCEPT !.calibrationSlope = newSlope]
        ELSE DefaultScales[i]]

ApplyScales(prevScales, id, newSlope) ==
    [i \in 1..Len(prevScales) |->
        IF prevScales[i].id = id
        THEN [prevScales[i] EXCEPT !.calibrationSlope = newSlope]
        ELSE prevScales[i]]

\* mutant: handleApply without the `slope !== 1` test
handleApply_AlwaysWrites ==
    /\ calibratingScaleId # 0
    /\ Len(points) >= 2
    /\ Spend
    /\ LET updatedScales ==
               [i \in 1..Len(scales) |->
                   IF scales[i].id = calibratingScale[1].id
                   THEN [scales[i] EXCEPT !.calibrationSlope = regressionResult.slope]
                   ELSE scales[i]]
       IN  /\ localStorage' = saveConfigToLocalStorage(updatedScales)
           /\ Render("applyCalibration", updatedScales, TRUE, isSimulating,
                     serialStatus, logBufferSize)
    /\ calibratingScaleId' = 0
    /\ points' = <<>>
    /\ knownWeight' = DefaultKnownWeight
    /\ UNCHANGED sessionTared
    /\ abandoned' = FALSE
    /\ UNCHANGED regression
    /\ UNCHANGED <<portRef, readerRef, conn, disc, portState>>

\* the Apply Calibration button: handleApply, handleApplyCalibration, onClose
handleApply ==
    /\ calibratingScaleId # 0
    /\ Len(points) >= 2
    /\ Spend
    /\ IF regressionResult.slope # Q(1)
       THEN LET updatedScales ==
                    ApplyScales(scales, calibratingScale[1].id, regressionResult.slope)
            IN  /\ localStorage' = saveConfigToLocalStorage(updatedScales)
                /\ Render("applyCalibration", updatedScales, TRUE, isSimulating,
                          serialStatus, logBufferSize)
       ELSE /\ localStorage' = localStorage
            /\ Render("applyNoop", scales, FALSE, isSimulating, serialStatus, logBufferSize)
    /\ calibratingScaleId' = 0
    /\ points' = <<>>
    /\ knownWeight' = DefaultKnownWeight
    /\ UNCHANGED sessionTared
    /\ abandoned' = FALSE
    /\ UNCHANGED regression
    /\ UNCHANGED SerialRest

\* mutant: the dialog is hidden, not unmounted, and keeps its points
CloseCalibration_KeepsPoints ==
    /\ calibratingScaleId # 0
    /\ Spend
    /\ calibratingScaleId' = 0
    /\ op' = "closeCalibration"
    /\ abandoned' = (points # <<>>)
    /\ UNCHANGED regression
    /\ UNCHANGED <<points, knownWeight, sessionTared>>
    /\ UNCHANGED <<scales, isSimulating, log, logBufferSize, serialStatus, localStorage,
                   hist, capMark>>
    /\ UNCHANGED SerialRest

\* Cancel, the close button or a click on the overlay
CloseCalibration ==
    /\ calibratingScaleId # 0
    /\ Spend
    /\ calibratingScaleId' = 0
    /\ points' = <<>>
    /\ knownWeight' = DefaultKnownWeight
    /\ op' = "closeCalibration"
    /\ UNCHANGED sessionTared
    /\ abandoned' = (points # <<>>)
    /\ UNCHANGED regression
    /\ UNCHANGED <<scales, isSimulating, log, logBufferSize, serialStatus, localStorage,
                   hist, capMark>>
    /\ UNCHANGED SerialRest

\* ------------------------------------------------------------ page and storage
\* the page is loaded again: App is constructed from what localStorage holds
Reload ==
    /\ Spend
    /\ scales' = LoadScales(localStorage)
    /\ isSimulating' = FALSE
    /\ calibratingScaleId' = 0
    /\ log' = <<>>
    /\ logBufferSize' = DefaultLogBufferSize
    /\ serialStatus' = [text |-> "Disconnected", type |-> "idle"]
    /\ portRef' = 0
    /\ readerRef' = 0
    /\ points' = <<>>
    /\ knownWeight' = DefaultKnownWeight
    /\ conn' = [c \in Conns |-> FreeConn]
    /\ disc' = NoDisc
    /\ portState' = [p \in Ports |-> "closed"]
    /\ hist' = <<>>
    /\ capMark' = [hist |-> 0, empty |-> TRUE]
    /\ sessionTared' = FALSE
    /\ abandoned' = FALSE
    /\ UNCHANGED regression
    /\ op' = "reload"
    /\ UNCHANGED localStorage

\* the item under LOCAL_STORAGE_KEY is written from outside the page (another
\* version of the page, the browser's storage tools) or removed
StorageEdited ==
    /\ Spend
    /\ localStorage' \in StoredItems \ {localStorage}
    /\ op' = "storageEdited"
    /\ UNCHANGED <<scales, isSimulating, calibratingScaleId, log, logBufferSize,
                   serialStatus, points, knownWeight, hist, capMark, sessionTared, abandoned, regression>>
    /\ UNCHANGED SerialRest

\* ----------------------------------------------------------- specifications
\* the log buffer under simulation, tare, category and buffer-size changes
LogEvents == 4

InitLog == InitFrom({<<>>}, LogEvents)

NextLog ==
    \/ ToggleSimulation
    \/ SimTick
    \/ handleTareAll
    \/ handleCategoryChange
    \/ SetLogBufferSize

SpecLog == InitLog /\ [][NextLog]_vars

\* the two data sources: simulation, connect, read, disconnect, and tare
SerialEvents == 4

InitSerial == InitFrom({<<c>> : c \in StoredConfigs}, SerialEvents)

NextSerial ==
    \/ ToggleSimulation
    \/ SimTick
    \/ handleTareAll
    \/ handleConnectDevice
    \/ RequestPortResolved
    \/ RequestPortRejected
    \/ OpenResolved
    \/ OpenRejected
    \/ readFromPort
    \/ ReadFailed
    \/ ReadDone
    \/ handleDisconnectDevice
    \/ DisconnectAfterCancel
    \/ DisconnectAfterClose

SpecSerial == InitSerial /\ [][NextSerial]_vars

\* tare under both data sources, without failures of the device
TareEvents == 4

InitTare == InitFrom({<<c>> : c \in StoredConfigs}, TareEvents)

NextTare ==
    \/ ToggleSimulation
    \/ SimTick
    \/ handleTareAll
    \/ handleConnectDevice
    \/ RequestPortResolved
    \/ OpenResolved
    \/ readFromPort

SpecTare == InitTare /\ [][NextTare]_vars

\* the calibration dialog under simulation and tare
CalEvents == 6

InitCal == InitFrom({<<c>> : c \in StoredConfigs}, CalEvents)

NextCal ==
    \/ ToggleSimulation
    \/ SimTick
    \/ handleTareAll
    \/ OpenCalibration
    \/ addPoint
    \/ handleApply
    \/ CloseCalibration

SpecCal == InitCal /\ [][NextCal]_vars

\* everything that can happen while no source is read
IdleEvents == 6

InitIdle == InitFrom({<<>>}, IdleEvents)

NextIdle ==
    \/ ToggleSimulation
    \/ SimTick
    \/ handleTareAll
    \/ handleCategoryChange
    \/ SetLogBufferSize
    \/ handleConnectDevice
    \/ RequestPortResolved
    \/ RequestPortRejected
    \/ OpenRejected
    \/ OpenCalibration
    \/ addPoint
    \/ handleApply
    \/ CloseCalibration

SpecIdle == InitIdle /\ [][NextIdle]_vars

\* the aggregate over stored configurations of every category, under simulation
AggEvents == 2

AggStores ==
    {<<ScalesConfig([DefaultScales EXCEPT ![1].tareValue = Q(t),
                                          ![1].calibrationSlope = k,
                                          ![1].category = c1,
                                          ![2].category = c2,
                                          ![3].category = c3])>> :
        t \in {0, 10}, k \in {Q(1), <<-3, 2>>},
        c1 \in Categories, c2 \in Categories, c3 \in {"-y"}}

InitAgg == InitFrom(AggStores, AggEvents)

NextAgg ==
    \/ ToggleSimulation
    \/ SimTick
    \/ handleCategoryChange

SpecAgg == InitAgg /\ [][NextAgg]_vars

\* the read loop of a connected device, line by line
StreamEvents == 4

InitStream == InitFrom({<<>>}, StreamEvents)

NextStream ==
    \/ handleConnectDevice
    \/ RequestPortResolved
    \/ OpenResolved
    \/ readFromPort

SpecStream == InitStream /\ [][NextStream]_vars

\* every handler that writes the channels, under both data sources
PersistEvents == 5

InitPersist == InitFrom({<<>>}, PersistEvents)

NextPersist ==
    \/ ToggleSimulation
    \/ SimTick
    \/ handleTareAll
    \/ handleCategoryChange
    \/ handleConnectDevice
    \/ RequestPortResolved
    \/ OpenResolved
    \/ readFromPort
    \/ OpenCalibration
    \/ addPoint
    \/ handleApply

SpecPersist == InitPersist /\ [][NextPersist]_vars

\* loading the channels from whatever localStorage holds
LoadEvents == 2

InitLoad == InitFrom(StoredItems, LoadEvents)

NextLoad ==
    \/ StorageEdited
    \/ Reload

SpecLoad == InitLoad /\ [][NextLoad]_vars

\* ------------------------------- disconnecting, with a second connect call
\* Connect to Device can be clicked again while the first call is pending
DisconnectEvents == 3

InitDisconnect == InitWith({<<>>}, DisconnectEvents, 1..(MaxConns + 1), 1..(NumPorts + 1))

NextDisconnect ==
    \/ handleConnectDevice
    \/ RequestPortResolved
    \/ OpenResolved
    \/ OpenRejected
    \/ readFromPort
    \/ ReadDone
    \/ handleDisconnectDevice
    \/ DisconnectAfterCancel
    \/ DisconnectAfterClose

SpecDisconnect == InitDisconnect /\ [][NextDisconnect]_vars

\* --------------------------------- a calibration against reference weights
UnitsEvents == 7

InitUnits == InitFrom({<<>>}, UnitsEvents)

NextUnits ==
    \/ ToggleSimulation
    \/ SimTick
    \/ OpenCalibration
    \/ addReferencePoint
    \/ handleApply

SpecUnits == InitUnits /\ [][NextUnits]_vars

\* ------------------------------------------------------ stability slopes
\* mutant: the trend is taken over the whole log
recentLog_WholeLog(lg) == lg

\* log.slice(-20)
recentLog(lg) == IF Len(lg) > 20 THEN SubSeq(lg, Len(lg) - 19, Len(lg)) ELSE lg

\* the regression of data against its indices 0, 1, ...; a rational is never NaN
calculateTrendlineSlope(data) ==
    IF Len(data) < 2 THEN Q(0)
    ELSE calculateLinearRegression(
             [i \in 1..Len(data) |-> [x |-> Q(i - 1), y |-> data[i]]]).slope

\* entry.processedValues[scaleIndex] ?? 0
ProcessedValueAt(entry, i) ==
    IF i \in DOMAIN entry.processedValues THEN entry.processedValues[i] ELSE Q(0)

\* recentLog.map(entry => ...) for channel i, for totalX (i = 9) and for totalY
RECURSIVE MapLog(_, _, _, _)
MapLog(recent, i, k, acc) ==
    IF Len(acc) < 0 \/ k > Len(recent) THEN acc
    ELSE MapLog(recent, i, k + 1,
                Append(acc, IF i <= 8 THEN ProcessedValueAt(recent[k], i)
                            ELSE IF i = 9 THEN recent[k].totalX ELSE recent[k].totalY))

SlopesOf(recent) ==
    IF Len(recent) < 2
    THEN [scales |-> [i \in 1..8 |-> Q(0)], totalX |-> Q(0), totalY |-> Q(0)]
    ELSE [scales |-> [i \in 1..8 |->
                         RMul(calculateTrendlineSlope(MapLog(recent, i, 1, <<>>)), Q(100))],
          totalX |-> RMul(calculateTrendlineSlope(MapLog(recent, 9, 1, <<>>)), Q(100)),
          totalY |-> RMul(calculateTrendlineSlope(MapLog(recent, 10, 1, <<>>)), Q(100))]

\* the useMemo over [log]
stabilitySlopes == SlopesOf(recentLog(log))

\* the setScales of one interval firing, channel by channel
RECURSIVE MovedFrom(_, _, _, _)
MovedFrom(prevScales, delta, i, acc) ==
    IF Len(acc) < 0 \/ i > Len(prevScales) THEN acc
    ELSE MovedFrom(prevScales, delta, i + 1,
             Append(acc, [prevScales[i] EXCEPT
                             !.rawValue = RAdd(prevScales[i].rawValue, delta[i])]))

\* the channels and the log once the simulation has been started and its
\* interval has fired once per delta
RECURSIVE SimulatedFrom(_, _, _, _)
SimulatedFrom(deltas, k, sc, lg) ==
    IF Len(lg) = 0 \/ k > Len(deltas) THEN [scales |-> sc, log |-> lg]
    ELSE SimulatedFrom(deltas, k + 1, MovedFrom(sc, deltas[k], 1, <<>>),
             AppendToLog(lg, NewLogEntry(MovedFrom(sc, deltas[k], 1, <<>>)),
                         DefaultLogBufferSize))

Simulated(deltas) == SimulatedFrom(deltas, 1, DefaultScales, <<NewLogEntry(DefaultScales)>>)

Up == [i \in 1..NumScales |-> Q(1)]
Down == [i \in 1..NumScales |-> IF i = 1 THEN Q(1) ELSE Q(-1)]

\* what the interval did before the first event: every channel rose 19 times,
\* the channels after the first fell 3 times and then rose 19 times, fell 24
\* times, or rose 11 times and then fell 11 times
TickPatterns ==
    {[k \in 1..19 |-> Up],
     [k \in 1..22 |-> IF k <= 3 THEN Down ELSE Up],
     [k \in 1..24 |-> Down],
     [k \in 1..22 |-> IF k <= 11 THEN Up ELSE Down]}

StabilityEvents == 2

InitStability ==
    \/ InitFrom({<<>>}, StabilityEvents)
    \/ \E deltas \in TickPatterns :
         /\ localStorage = <<>>
         /\ limit = StabilityEvents
         /\ scales = Simulated(deltas).scales
         /\ isSimulating = TRUE
         /\ calibratingScaleId = 0
         /\ log = Simulated(deltas).log
         /\ logBufferSize = DefaultLogBufferSize
         /\ serialStatus = [text |-> "Disconnected", type |-> "idle"]
         /\ portRef = 0
         /\ readerRef = 0
         /\ points = <<>>
         /\ knownWeight = DefaultKnownWeight
         /\ conn = [c \in 1..MaxConns |-> FreeConn]
         /\ disc = NoDisc
         /\ portState = [p \in 1..NumPorts |-> "closed"]
         /\ hist = Simulated(deltas).log
         /\ capMark = [hist |-> 0, empty |-> TRUE]
         /\ sessionTared = FALSE
         /\ abandoned = FALSE
         /\ regression = RegressionOf(<<>>)
         /\ used = 0
         /\ op = "simTick"

NextStability ==
    \/ ToggleSimulation
    \/ SimTick
    \/ handleCategoryChange

SpecStability == InitStability /\ [][NextStability]_vars

\* ---------------------------------------- the regression engine on its own
\* points a call can carry, the longest call, and a call with one point more
MaxPoints == 3

RegressionInputs ==
    {[x |-> Q(0), y |-> Q(0)], [x |-> Q(1), y |-> Q(2)], [x |-> Q(2), y |-> Q(4)],
     [x |-> Q(5), y |-> Q(1)], [x |-> Q(5), y |-> Q(3)],
     [x |-> <<3, 10>>, y |-> Q(1)], [x |-> <<3, 10>>, y |-> Q(2)]}

RegressionCall ==
    \E p \in RegressionInputs :
      /\ Len(regression.points) < MaxPoints
      /\ regression' = RegressionOf(Append(regression.points, p))
      /\ op' = "calculateLinearRegression"
      /\ UNCHANGED <<scales, isSimulating, calibratingScaleId, log, logBufferSize,
                     serialStatus, portRef, readerRef, localStorage, points, knownWeight,
                     conn, disc, portState, hist, capMark, sessionTared, abandoned,
                     used, limit>>

InitRegression == InitFrom({<<>>}, 0)

NextRegression == RegressionCall

SpecRegression == InitRegression /\ [][NextRegression]_vars

\* --------------------------------------------- stability slopes, in doubles
\* mutant: the value is taken as x and the index as y
IndexedPointsFrom_ValueAsX(data, i, acc) ==
    [k \in 1..Len(data) |-> [x |-> data[k], y |-> DInt(k - 1)]]

\* data.map((y, i) => ({ x: i, y }))
RECURSIVE IndexedPointsFrom(_, _, _)
IndexedPointsFrom(data, i, acc) ==
    IF Len(acc) < 0 \/ i > Len(data) THEN acc
    ELSE IndexedPointsFrom(data, i + 1, Append(acc, [x |-> DInt(i - 1), y |-> data[i]]))

\* calculateTrendlineSlope on doubles; the slope of finite data is never NaN
calculateTrendlineSlopeDouble(data) ==
    IF Len(data) < 2 THEN DZero
    ELSE calculateLinearRegressionDouble(IndexedPointsFrom(data, 1, <<>>)).slope

RECURSIVE DoubleValuesFrom(_, _, _)
DoubleValuesFrom(values, i, acc) ==
    IF Len(acc) < 0 \/ i > Len(values) THEN acc
    ELSE DoubleValuesFrom(values, i + 1, Append(acc, DOfRational(values[i])))

\* stabilitySlopes for one quantity, given the values of that quantity in the
\* entries of the log as decimal numerals
StabilitySlopeOf(values) ==
    LET recent == recentLog(values)
    IN  [values |-> values,
         slope |-> IF Len(recent) < 2 THEN DZero
                   ELSE DMul(calculateTrendlineSlopeDouble(DoubleValuesFrom(recent, 1, <<>>)),
                             DInt(100))]

MaxLog == 22

\* values a quantity can hold still at: 0, whole numbers and decimals
HeldValues == {Q(0), Q(3), Q(-2), <<1, 10>>, <<3, 10>>, <<-5, 2>>}

\* a quantity over a log of up to MaxLog entries: held at one value throughout,
\* held at it after one or two entries at another value, or rising by it
QuantityLogs ==
    UNION {{[k \in 1..n |-> v],
            [k \in 1..n |-> IF k <= 1 THEN RAdd(v, Q(1)) ELSE v],
            [k \in 1..n |-> IF k <= 2 THEN RAdd(v, Q(1)) ELSE v],
            [k \in 1..n |-> RMul(Q(k), v)]} : n \in 0..MaxLog, v \in HeldValues}

StabilityCall ==
    \E values \in QuantityLogs :
      \* one call in a behaviour
      /\ op = "init"
      /\ regression' = StabilitySlopeOf(values)
      /\ op' = "stabilitySlopes"
      /\ UNCHANGED <<scales, isSimulating, calibratingScaleId, log, logBufferSize,
                     serialStatus, portRef, readerRef, localStorage, points, knownWeight,
                     conn, disc, portState, hist, capMark, sessionTared, abandoned,
                     used, limit>>

InitTrend == InitFrom({<<>>}, 0)

NextTrend == StabilityCall

SpecTrend == InitTrend /\ [][NextTrend]_vars

\* ------------------------------------------------------------------- claims
Min(a, b) == IF a < b THEN a ELSE b
LastOf(sq, k) == SubSeq(sq, Len(sq) - k + 1, Len(sq))
Readers == {c \in Conns : conn[c].pc = "read"}
SampleOps == {"simTick", "readChunk"}

\* C1: in every reachable state the log holds at most logBufferSize entries
\* (stated for the buffer sizes C >= 1 the log buffer is specified for).
C1_LengthAtMostCapacity == logBufferSize >= 1 => Len(log) <= logBufferSize

\* C2: with the buffer size fixed at C >= 1 since the log was empty, after n
\* appends the log is exactly the last min(n, C) appended entries, in order.
C2_FifoRetention ==
    (capMark.empty /\ logBufferSize >= 1) =>
        log = LastOf(hist, Min(Len(hist) - capMark.hist, logBufferSize))

\* C2 witness: the buffer size was set to C on an empty log and more than C
\* entries were appended since, so the oldest were evicted.
C2_Witness ==
    /\ capMark.empty
    /\ logBufferSize >= 1
    /\ Len(hist) - capMark.hist > logBufferSize
    /\ op = "simTick"

\* C3: the simulation timer and a serial read loop are never both active, and
\* at most one serial read loop is active.
C3_SingleSource ==
    /\ ~(isSimulating /\ Readers # {})
    /\ Cardinality(Readers) <= 1

\* C4: an entry is appended by an accepted sample and by nothing else, and every
\* accepted sample taken while ingestion is active appends exactly one entry,
\* the aggregate of the channels after that sample.
C4_OncePerSample ==
    [][/\ Len(hist') > Len(hist) => op' \in SampleOps
       /\ (op' \in SampleOps /\ scales' # scales /\ isReadingData')
             => hist' = Append(hist, NewLogEntry(scales'))]_vars

\* C5: a step that starts and ends with ingestion idle leaves the log unchanged.
C5_IdleNoAppend ==
    [][(~isReadingData /\ ~isReadingData') => (log' = log /\ hist' = hist)]_vars

\* C5 witness: a calibration was committed while idle, with entries in the log.
C5_Witness ==
    /\ ~isReadingData
    /\ op = "applyCalibration"
    /\ log # <<>>

\* C6: a buffer-size change to C below the current length leaves exactly the
\* last C entries of the log.
C6_TrimOnCapacityChange ==
    [][(logBufferSize' # logBufferSize /\ logBufferSize' >= 1 /\ Len(log) > logBufferSize')
          => log' = LastOf(log, logBufferSize')]_vars

\* the sum of the processed values of the channels in a set
RECURSIVE SumProcessed(_, _)
SumProcessed(sc, ids) ==
    IF ids = {} THEN Q(0)
    ELSE LET i == CHOOSE j \in ids : TRUE
         IN  RAdd(RMul(RSub(sc[i].rawValue, sc[i].tareValue), sc[i].calibrationSlope),
                  SumProcessed(sc, ids \ {i}))

Categorized(sc, cat) == {i \in 1..Len(sc) : sc[i].category = cat}

ProbeValues == {Q(-7), <<5, 2>>}

\* C7: processedValue = (raw - tare) * slope per channel, totalX = sum over x
\* minus sum over -x, totalY likewise, and the totals do not depend on the raw
\* value, tare or slope of a channel categorized none.
C7_Aggregate ==
    LET a == Aggregate(scales)
    IN  /\ Len(a.processedValues) = NumScales
        /\ \A i \in 1..NumScales :
             a.processedValues[i] =
                 RMul(RSub(scales[i].rawValue, scales[i].tareValue),
                      scales[i].calibrationSlope)
        /\ a.totalX = RSub(SumProcessed(scales, Categorized(scales, "x")),
                           SumProcessed(scales, Categorized(scales, "-x")))
        /\ a.totalY = RSub(SumProcessed(scales, Categorized(scales, "y")),
                           SumProcessed(scales, Categorized(scales, "-y")))
        /\ \A i \in Categorized(scales, "none") :
             \A r \in ProbeValues, t \in ProbeValues, k \in ProbeValues :
                LET b == Aggregate([scales EXCEPT ![i].rawValue = r, ![i].tareValue = t,
                                                  ![i].calibrationSlope = k])
                IN  b.totalX = a.totalX /\ b.totalY = a.totalY

\* C7 witness: after a sample, channels of category x and -x and a channel of
\* category none all have nonzero processed values and totalX is not zero.
C7_Witness ==
    /\ op = "simTick"
    /\ Categorized(scales, "x") # {}
    /\ Categorized(scales, "-x") # {}
    /\ Categorized(scales, "-y") # {}
    /\ \E i \in Categorized(scales, "none") : ~RIsZero(Aggregate(scales).processedValues[i])
    /\ ~RIsZero(Aggregate(scales).totalX)
    /\ ~RIsZero(Aggregate(scales).totalY)

AllZero(sq) == \A i \in 1..Len(sq) : RIsZero(sq[i])

\* C8: Tare All sets every tareValue to the rawValue of the same state and leaves
\* every processed value and both totals at 0; a later sample r gives channel i
\* the processed value (r_i - tare_i) * slope_i with the tare and slope unchanged.
C8_TareAll ==
    [][/\ op' = "tareAll" =>
            /\ \A i \in 1..NumScales :
                 /\ scales'[i].tareValue = scales[i].rawValue
                 /\ scales'[i].rawValue = scales[i].rawValue
            /\ AllZero(Aggregate(scales').processedValues)
            /\ RIsZero(Aggregate(scales').totalX)
            /\ RIsZero(Aggregate(scales').totalY)
       /\ op' \in SampleOps =>
            \A i \in 1..NumScales :
                 Aggregate(scales').processedValues[i] =
                     RMul(RSub(scales'[i].rawValue, scales[i].tareValue),
                          scales[i].calibrationSlope)]_vars

\* C8 witness: raw all 10, channel 1 = x, channel 2 = -x, tared, then the frame
\* [15, 10, ...] was read: totalX is 5.
C8_Witness ==
    /\ op = "readChunk"
    /\ scales[1].category = "x"
    /\ scales[2].category = "-x"
    /\ \A i \in 1..NumScales : scales[i].tareValue = Q(10)
    /\ scales[1].rawValue = Q(15)
    /\ Aggregate(scales).totalX = Q(5)

ApplyOps == {"applyCalibration", "applyNoop"}

\* C9: Apply Calibration runs only with at least 2 points; it writes the slope
\* into the calibrated channel and saves the configuration iff the slope is not
\* 1, otherwise the channels and the saved configuration are unchanged; the
\* dialog is closed afterwards either way.
C9_Commit ==
    [][op' \in ApplyOps =>
         /\ calibratingScaleId # 0
         /\ Len(points) >= 2
         /\ LET slope == regressionResult.slope
            IN  IF slope # Q(1)
                THEN /\ op' = "applyCalibration"
                     /\ scales' = [scales EXCEPT ![calibratingScaleId].calibrationSlope = slope]
                     /\ localStorage' = <<ScalesConfig(scales')>>
                ELSE /\ op' = "applyNoop"
                     /\ scales' = scales
                     /\ localStorage' = localStorage
         /\ calibratingScaleId' = 0
         /\ points' = <<>>]_vars

\* C9 witness: a commit whose regression gave slope 1 was a no-op on a channel
\* whose slope is not 1.
C9_Witness ==
    /\ op = "applyNoop"
    /\ calibratingScaleId = 0
    /\ scales[1].calibrationSlope # Q(1)

\* C10: the committed slope is the regression over (knownWeight, raw - tare)
\* with the tare of the state the commit runs in, and the commit changes nothing
\* but that channel's calibrationSlope: a tare set while the dialog was open
\* stays.
C10_CommitKeepsTare ==
    [][op' = "applyCalibration" =>
         LET id == calibratingScaleId
             tare == scales[id].tareValue
             pairs == [i \in 1..Len(points) |->
                          [x |-> points[i].knownWeight, y |-> RSub(points[i].rawValue, tare)]]
             slope == calculateLinearRegression(pairs).slope
         IN  /\ scales'[id].calibrationSlope = slope
             /\ \A i \in 1..NumScales :
                  /\ scales'[i].tareValue = scales[i].tareValue
                  /\ scales'[i].rawValue = scales[i].rawValue
                  /\ scales'[i].category = scales[i].category
                  /\ i # id => scales'[i] = scales[i]]_vars

\* C10 witness: Tare All ran while the dialog was open, moved the tare away from
\* the loaded one, and the calibration was then committed.
C10_Witness ==
    /\ op = "applyCalibration"
    /\ sessionTared
    /\ localStorage # <<>>
    /\ scales[1].tareValue # Q(10)
    /\ scales[1].calibrationSlope # Q(2)
    /\ scales[1].category = "y"

\* the pieces of text between its separators ch, read character by character:
\* cur is the piece being read, done the pieces before it
RECURSIVE PiecesFrom(_, _, _, _, _)
PiecesFrom(text, ch, i, cur, done) ==
    IF i > Len(text) THEN Append(done, cur)
    ELSE IF text[i] = ch THEN PiecesFrom(text, ch, i + 1, <<>>, Append(done, cur))
    ELSE PiecesFrom(text, ch, i + 1, Append(cur, text[i]), done)

Pieces(text, ch) == PiecesFrom(text, ch, 1, <<>>, <<>>)
Front(sq) == SubSeq(sq, 1, Len(sq) - 1)
Last(sq) == sq[Len(sq)]

\* the lines of text that are ended by a newline, and what follows the last one
CompleteLines(text) == Front(Pieces(text, NL))
Remainder(text) == Last(Pieces(text, NL))

IsBlank(text) == \A i \in 1..Len(text) : text[i] \in WhiteSpace

RECURSIVE DropBlankHead(_)
DropBlankHead(fields) ==
    IF fields # <<>> /\ IsBlank(Head(fields)) THEN DropBlankHead(Tail(fields)) ELSE fields

RECURSIVE DropBlankLast(_)
DropBlankLast(fields) ==
    IF fields # <<>> /\ IsBlank(Last(fields)) THEN DropBlankLast(Front(fields)) ELSE fields

\* the tab-separated fields of a line without the white space around the line
Fields(line) == DropBlankLast(DropBlankHead(Pieces(line, TAB)))

\* the value of a numeral, from its last digit
RECURSIVE NumeralValue(_)
NumeralValue(digits) ==
    IF digits = <<>> THEN 0
    ELSE 10 * NumeralValue(Front(digits)) + DigitValue(Last(digits))

\* the index of the last digit of the run of digits starting at i (i - 1 if none)
RECURSIVE DigitRun(_, _)
DigitRun(field, i) ==
    IF i <= Len(field) /\ field[i] \in Digits THEN DigitRun(field, i + 1) ELSE i - 1

RECURSIVE FirstInk(_, _)
FirstInk(field, i) ==
    IF i <= Len(field) /\ field[i] \in WhiteSpace THEN FirstInk(field, i + 1) ELSE i

SignedNumeral(field, start, sign) ==
    IF DigitRun(field, start) < start THEN <<>>
    ELSE <<sign * NumeralValue(SubSeq(field, start, DigitRun(field, start)))>>

\* the number a field parses as (what follows its numeral is not looked at):
\* <<v>>, or <<>> when it does not parse
FieldNumber(field) ==
    IF FirstInk(field, 1) <= Len(field) /\ field[FirstInk(field, 1)] = "-"
    THEN SignedNumeral(field, FirstInk(field, 1) + 1, -1)
    ELSE SignedNumeral(field, FirstInk(field, 1), 1)

\* a line of exactly 8 tab-separated fields that all parse as numbers
IsFrame(line) ==
    /\ Len(Fields(line)) = NumScales
    /\ \A k \in 1..NumScales : FieldNumber(Fields(line)[k]) # <<>>

\* the raw values a frame carries
FrameNumbers(line) == [k \in 1..NumScales |-> Q(FieldNumber(Fields(line)[k])[1])]

\* the channels after the lines from the k-th on, starting from sc
RECURSIVE AfterLines(_, _, _)
AfterLines(sc, lines, k) ==
    IF k > Len(lines) THEN sc
    ELSE IF IsFrame(lines[k])
    THEN AfterLines([i \in 1..NumScales |->
                        [sc[i] EXCEPT !.rawValue = FrameNumbers(lines[k])[i]]],
                    lines, k + 1)
    ELSE AfterLines(sc, lines, k + 1)

\* what a read must leave when text is the buffer followed by the value read
ReadOutcome(sc, text) ==
    [scales |-> AfterLines(sc, CompleteLines(text), 1),
     lineBuffer |-> Remainder(text),
     idle |-> \A k \in 1..Len(CompleteLines(text)) : ~IsFrame(CompleteLines(text)[k])]

FailureOps == {"requestPortRejected", "openRejected", "readFailed"}

\* C12: a failure of the port request, of the open or of a read sets the status
\* to 'error' with a message and leaves the channels and the log unchanged; the
\* status is not left at 'connected' with no read loop behind it.
C12_FailureSurfaced ==
    [][op' \in FailureOps =>
         /\ serialStatus'.type = "error"
         /\ serialStatus'.text # ""
         /\ scales' = scales
         /\ log' = log
         /\ ~(serialStatus'.type = "connected" /\ Readers' = {})]_vars

PersistedFields == {"id", "name", "tareValue", "calibrationSlope", "category"}
MutationOps == {"tareAll", "categoryChange", "applyCalibration"}

\* the persisted form of the channels: the five persisted fields of each
PersistedForm(sc) ==
    [i \in 1..NumScales |->
        [f \in PersistedFields |-> sc[i][f]]]

LoadOps == {"init", "reload"}

\* a channel record that has the fields of the persisted form
IsPersistedRecord(item) ==
    /\ PersistedFields \subseteq DOMAIN item
    /\ item.category \in Categories

\* a list of 8 channel records of the persisted form
WellFormedStore(store) ==
    /\ Len(store) = 1
    /\ Len(store[1]) = NumScales
    /\ \A i \in 1..NumScales : IsPersistedRecord(store[1][i])

\* C14: on load the channels are the 8 defaults whenever the stored item is
\* absent, is not the JSON text of a list, or is a list that is not 8 channel
\* records of the persisted form; a well-formed list of 8 records is loaded with
\* every rawValue 0.
C14_LoadOrDefault ==
    op \in LoadOps =>
        IF WellFormedStore(localStorage)
        THEN \A i \in 1..NumScales :
               /\ scales[i].rawValue = Q(0)
               /\ \A f \in PersistedFields : scales[i][f] = localStorage[1][i][f]
        ELSE scales = DefaultScales

\* C15: closing the calibration dialog without applying discards its points and
\* leaves the channels and the stored configuration unchanged; while no dialog
\* is open there are no points, so a dialog opened afterwards, on whichever
\* channel, starts with none.
C15_AbandonDiscards ==
    [][/\ op' = "closeCalibration" =>
            /\ calibratingScaleId' = 0
            /\ points' = <<>>
            /\ scales' = scales
            /\ localStorage' = localStorage
       /\ calibratingScaleId' = 0 => points' = <<>>
       /\ (calibratingScaleId = 0 /\ op' = "openCalibration") =>
            (calibratingScaleId' # 0 /\ points' = <<>>)]_vars

\* C15 witness: a dialog that held points was closed unapplied and a dialog was
\* opened after it.
C15_Witness ==
    /\ op = "openCalibration"
    /\ abandoned
    /\ calibratingScaleId # 0
    /\ points = <<>>

\* ------------------------------------------------------------------- C16
AllSameX(pts) == \A i, j \in 1..Len(pts) : pts[i].x = pts[j].x
AllSameY(pts) == \A i, j \in 1..Len(pts) : pts[i].y = pts[j].y

\* C16: a call with fewer than 2 points, or with 2 or more points that all have
\* the same x, returns exactly (slope 1, rSquared 0); a call whose x values
\* differ while all y values are the same returns rSquared 1
C16_DegenerateCases ==
    /\ (Len(regression.points) < 2 \/ AllSameX(regression.points))
          => regression.result = [slope |-> DInt(1), rSquared |-> DZero]
    /\ (~AllSameX(regression.points) /\ AllSameY(regression.points))
          => regression.result.rSquared = DInt(1)
\* ------------------------------------------------------------------- C17
\* binary digits to which a slope computed from decimal inputs agrees with
\* the exact one
ToleranceBits == 40

\* the sum over pts[i], pts[i + 1], ... of x, y, x y or x x, added to acc
TermOf(p, term) ==
    CASE term = "x"  -> p.x
      [] term = "y"  -> p.y
      [] term = "xy" -> RMul(p.x, p.y)
      [] term = "xx" -> RMul(p.x, p.x)

RECURSIVE SumOf(_, _, _, _)
SumOf(pts, term, i, acc) ==
    IF acc[2] = 0 \/ i > Len(pts) THEN acc
    ELSE SumOf(pts, term, i + 1, RAdd(acc, TermOf(pts[i], term)))

\* n Sxy - Sx Sy over n Sxx - Sx^2
SlopeOfSums(n, Sx, Sy, Sxy, Sxx) ==
    RDiv(RSub(RMul(n, Sxy), RMul(Sx, Sy)), RSub(RMul(n, Sxx), RMul(Sx, Sx)))

\* (n Sxy - Sx Sy) / (n Sxx - Sx^2) in exact arithmetic, for points whose x differ
ClosedFormSlope(pts) ==
    SlopeOfSums(Q(Len(pts)), SumOf(pts, "x", 1, Q(0)), SumOf(pts, "y", 1, Q(0)),
                SumOf(pts, "xy", 1, Q(0)), SumOf(pts, "xx", 1, Q(0)))

BOfNat(n) == BTrim(<<n % Limb, (n \div Limb) % Limb, n \div (Limb * Limb)>>)

\* |a - b| for naturals with signs sa, sb
BDistance(sa, a, sb, b) ==
    IF sa # sb THEN BAdd(a, b)
    ELSE IF BCmp(a, b) >= 0 THEN BSub(a, b) ELSE BSub(b, a)

\* |d - r| * 2^ToleranceBits <= 1 + |r| for a double d and a rational r
WithinTolerance(d, r) ==
    LET sr == IF r[1] < 0 THEN -1 ELSE 1
        up == IF d.e > 0 THEN d.e ELSE 0
        down == IF d.e < 0 THEN 0 - d.e ELSE 0
        \* d and r, both times r[2] * 2^down
        dm == BShl(BMul(d.m, BOfNat(r[2])), up)
        rm == BShl(BOfNat(Abs(r[1])), down)
    IN  BCmp(BShl(BDistance(d.s, dm, sr, rm), ToleranceBits),
             BShl(BOfNat(r[2] + Abs(r[1])), down)) <= 0

IntegerPoints(pts) == \A i \in 1..Len(pts) : pts[i].x[2] = 1 /\ pts[i].y[2] = 1

Trailing(lg) == SubSeq(lg, IF Len(lg) > 20 THEN Len(lg) - 19 ELSE 1, Len(lg))

\* the ten quantities of a log entry: the 8 channels, totalX and totalY
QuantityOf(entry, q) ==
    IF q <= 8 THEN entry.processedValues[q]
    ELSE IF q = 9 THEN entry.totalX ELSE entry.totalY

SlopeOf(slopes, q) ==
    IF q <= 8 THEN slopes.scales[q]
    ELSE IF q = 9 THEN slopes.totalX ELSE slopes.totalY

\* the values of quantity q over lg rise by the same d from each entry to the next
IsArithmetic(lg, q, d) ==
    \A k \in 1..(Len(lg) - 1) : RSub(QuantityOf(lg[k + 1], q), QuantityOf(lg[k], q)) = d

FirstDifference(lg, q) == RSub(QuantityOf(lg[2], q), QuantityOf(lg[1], q))

\* the values of quantity q over the entries of lg, against 0, 1, ...
RECURSIVE SeriesFrom(_, _, _, _)
SeriesFrom(lg, q, k, acc) ==
    IF Len(acc) < 0 \/ k > Len(lg) THEN acc
    ELSE SeriesFrom(lg, q, k + 1, Append(acc, [x |-> Q(k - 1), y |-> QuantityOf(lg[k], q)]))

\* the slopes are those of the window: 100 times its least-squares slopes, and
\* 100 d for a quantity that rises by d per entry
SlopesFollow(slopes, window) ==
    \A q \in 1..10 :
      /\ SlopeOf(slopes, q) = RMul(Q(100), ClosedFormSlope(SeriesFrom(window, q, 1, <<>>)))
      /\ IsArithmetic(window, q, FirstDifference(window, q))
           => SlopeOf(slopes, q) = RMul(Q(100), FirstDifference(window, q))

\* C18: with fewer than 2 log entries all ten stability slopes are 0; otherwise
\* each is 100 times the least-squares slope of the quantity over the trailing
\* min(20, length) entries, so a quantity that rises by d per entry over that
\* window has slope 100 d, whatever the older entries hold
C18_StabilitySlopes ==
    /\ Len(log) < 2 => \A q \in 1..10 : SlopeOf(stabilitySlopes, q) = Q(0)
    /\ Len(log) >= 2 => SlopesFollow(stabilitySlopes, Trailing(log))

\* C18 witness: the log holds more than 20 entries, channel 2 rose by 1 per
\* entry over the last 20 and did not before, and its slope is 100
C18_Witness ==
    /\ op = "simTick"
    /\ used > 0
    /\ Len(log) > 20
    /\ IsArithmetic(Trailing(log), 2, Q(1))
    /\ ~IsArithmetic(log, 2, Q(1))
    /\ stabilitySlopes.scales[2] = Q(100)
\* ------------------------------------------------------------------- C19
DisconnectedOps == {"disconnect", "disconnected"}

\* C19: when a disconnect takes the status from 'connected' to 'idle', no read
\* loop is left and every port is closed; and while the status is 'idle' no
\* streamed frame changes the channels
C19_DisconnectHalts ==
    [][/\ (serialStatus.type = "connected" /\ op' \in DisconnectedOps
             /\ serialStatus'.type = "idle")
          => (Readers' = {} /\ \A p \in Ports : portState'[p] = "closed")
       /\ (serialStatus.type = "idle" /\ op' = "readChunk") => scales' = scales]_vars
\* ------------------------------------------------------------------- C20
\* the points lie on taredRaw = k knownWeight for the tare given
OnLine(pts, tare, k) ==
    \A i \in 1..Len(pts) : RSub(pts[i].rawValue, tare) = RMul(k, pts[i].knownWeight)

\* taredRaw / knownWeight of the first point
FirstFactor(pts, tare) == RDiv(RSub(pts[1].rawValue, tare), pts[1].knownWeight)

\* C20: after the commit of a session whose points, taken at two or more
\* different known weights, lie on taredRaw = k knownWeight with k other than 0
\* and 1, the channel's processed value at the raw value of a calibration point
\* is that point's known weight
C20_SlopeGivesPhysicalUnits ==
    [][(/\ op' \in ApplyOps
        /\ \A i \in 1..Len(points) : points[i].knownWeight # Q(0)
        /\ \E i, j \in 1..Len(points) : points[i].knownWeight # points[j].knownWeight
        /\ OnLine(points, scales[calibratingScaleId].tareValue,
                  FirstFactor(points, scales[calibratingScaleId].tareValue))
        /\ FirstFactor(points, scales[calibratingScaleId].tareValue) \notin {Q(0), Q(1)})
       => \A i \in 1..Len(points) :
            scales'[calibratingScaleId].rawValue = points[i].rawValue
              => processedValue(scales'[calibratingScaleId]) = points[i].knownWeight]_vars
\* ------------------------------------------------------------------- C21
\* a channel is as before apart from its rawValue / category / calibrationSlope
SameButRaw(new, old) == new = [old EXCEPT !.rawValue = new.rawValue]
SameButCategory(new, old) == new = [old EXCEPT !.category = new.category]
SameButSlope(new, old) == new = [old EXCEPT !.calibrationSlope = new.calibrationSlope]

\* C21: a tareValue changes only in tareAll and a calibrationSlope only in the
\* commit of a calibration of that channel; a simulated or streamed sample
\* changes only rawValue fields, a category change only the category of one
\* channel, tareAll no calibrationSlope and no category, and a commit no
\* tareValue, no category and no slope of another channel
C21_FrameEffects ==
    [][/\ \A i \in 1..NumScales :
            /\ scales'[i].tareValue # scales[i].tareValue => op' = "tareAll"
            /\ scales'[i].calibrationSlope # scales[i].calibrationSlope
                 => (op' = "applyCalibration" /\ i = calibratingScaleId)
       /\ op' \in SampleOps => \A i \in 1..NumScales : SameButRaw(scales'[i], scales[i])
       /\ op' = "categoryChange" =>
            \E id \in 1..NumScales :
              /\ SameButCategory(scales'[id], scales[id])
              /\ \A i \in 1..NumScales \ {id} : scales'[i] = scales[i]
       /\ op' = "tareAll" =>
            \A i \in 1..NumScales :
              /\ scales'[i].calibrationSlope = scales[i].calibrationSlope
              /\ scales'[i].category = scales[i].category
              /\ scales'[i].rawValue = scales[i].rawValue
       /\ op' = "applyCalibration" =>
            /\ SameButSlope(scales'[calibratingScaleId], scales[calibratingScaleId])
            /\ \A i \in 1..NumScales \ {calibratingScaleId} : scales'[i] = scales[i]]_vars

\* C21 witness: a calibration of channel 1 was committed with a slope other
\* than 1 and the other channels kept slope 1
C21_Witness ==
    /\ op = "applyCalibration"
    /\ scales[1].calibrationSlope # Q(1)
    /\ \A i \in 2..NumScales : scales[i].calibrationSlope = Q(1)
\* ------------------------------------------------------------------- C22
\* C22: the log buffer capacity is at least 1 in every reachable state, whatever
\* text is entered as the buffer size
C22_CapacityAtLeastOne == logBufferSize >= 1
\* ------------------------------------------------------------------- C23
\* the values are the same in every entry of the window
HeldOver(window) == \A k \in 1..Len(window) : window[k] = window[1]

\* n * sumX2 - sumX * sumX as the regression engine computes it for the window
XVariance(window) ==
    LET s == DRegressionSums(IndexedPointsFrom(DoubleValuesFrom(window, 1, <<>>), 1, <<>>), 1,
                 [sumX |-> DZero, sumY |-> DZero, sumXY |-> DZero,
                  sumX2 |-> DZero, sumY2 |-> DZero])
        n == DInt(Len(window))
    IN  DSub(DMul(n, s.sumX2), DMul(s.sumX, s.sumX))

\* C23: a quantity that holds one value over the trailing window of 2 or more
\* log entries has stability slope 0 (exactly for whole values, and to within
\* 2^-ToleranceBits for decimal values, whose sums are rounded), and never the
\* 100 that the regression engine's default slope 1 would give: the x-variance
\* the engine computes for the indices 0..k-1 is not 0
C23_ConstantWindowSlope ==
    (op = "stabilitySlopes" /\ Len(regression.values) >= 2
                            /\ HeldOver(Trailing(regression.values))) =>
        /\ WithinTolerance(regression.slope, Q(0))
        /\ regression.values[Len(regression.values)][2] = 1 => DIsZero(regression.slope)
        /\ regression.slope # DInt(100)
        /\ ~DIsZero(XVariance(Trailing(regression.values)))

\* C23 witness: over a log of more than 20 entries the quantity stood at 3 in
\* the last 20 and at 4 before, and its slope is 0
C23_Witness ==
    /\ op = "stabilitySlopes"
    /\ Len(regression.values) > 20
    /\ HeldOver(Trailing(regression.values))
    /\ ~HeldOver(regression.values)
    /\ regression.values[Len(regression.values)] = Q(3)
    /\ DIsZero(regression.slope)
====
